---- MODULE Spec2Model ----
(***************************************************************************)
(* Model of ffmpeg_convert.py: one run of main() after parse_args().       *)
(* Text values (CLI strings, ffprobe fields) are sequences of one-char     *)
(* strings.  An optional value is <<>> (Python None) or <<v>>.             *)
(* Exact rationals (fractions.Fraction) are normalised pairs <<n, d>>.     *)
(***************************************************************************)
EXTENDS Integers, Sequences, FiniteSets, TLC

VARIABLES pc, args, video_probe, audio_probes, i_ats, output_file,
          r_frame_rate, start_time, duration, input_kwargs, ffkwargs,
          audio_stream, raised, invocations

vars == <<pc, args, video_probe, audio_probes, i_ats, output_file,
          r_frame_rate, start_time, duration, input_kwargs, ffkwargs,
          audio_stream, raised, invocations>>

\* ------------------------------------------------------------- bounds
MaxFrames == 2
MaxStreams == 3
MaxTracks == 2

\* ------------------------------------------------------------- options
None == <<>>
Some(v) == <<v>>
IsNone(o) == o = <<>>
Val(o) == o[1]

\* ------------------------------------------------------------- text
Digits == {"0", "1", "2", "3", "4", "5", "6", "7", "8", "9"}

DigitVal(c) ==
  CASE c = "0" -> 0 [] c = "1" -> 1 [] c = "2" -> 2 [] c = "3" -> 3
    [] c = "4" -> 4 [] c = "5" -> 5 [] c = "6" -> 6 [] c = "7" -> 7
    [] c = "8" -> 8 [] c = "9" -> 9

DigitChar(d) ==
  CASE d = 0 -> "0" [] d = 1 -> "1" [] d = 2 -> "2" [] d = 3 -> "3"
    [] d = 4 -> "4" [] d = 5 -> "5" [] d = 6 -> "6" [] d = 7 -> "7"
    [] d = 8 -> "8" [] d = 9 -> "9"

IsDigits(s) == Len(s) > 0 /\ \A i \in 1..Len(s) : s[i] \in Digits

RECURSIVE DigitsVal(_)
DigitsVal(s) ==
  IF s = <<>> THEN 0
  ELSE DigitsVal(SubSeq(s, 1, Len(s) - 1)) * 10 + DigitVal(s[Len(s)])

\* int(text): an optional sign followed by one or more decimal digits;
\* anything else raises ValueError (ok = FALSE).
PyInt(s) ==
  LET signed == Len(s) > 0 /\ s[1] \in {"-", "+"}
      body == IF signed THEN Tail(s) ELSE s
  IN IF IsDigits(body)
       THEN [ok |-> TRUE,
             val |-> IF signed /\ s[1] = "-" THEN 0 - DigitsVal(body)
                                              ELSE DigitsVal(body)]
       ELSE [ok |-> FALSE, val |-> 0]

\* str.split(sep): the pieces between the occurrences of sep.
RECURSIVE Split(_, _)
Split(s, sep) ==
  IF \A i \in 1..Len(s) : s[i] # sep THEN <<s>>
  ELSE LET i == CHOOSE k \in 1..Len(s) :
                  s[k] = sep /\ \A j \in 1..(k - 1) : s[j] # sep
       IN <<SubSeq(s, 1, i - 1)>> \o Split(SubSeq(s, i + 1, Len(s)), sep)

\* The decimal text of a natural number, as ffprobe prints it.
RECURSIVE IntToStr(_)
IntToStr(n) ==
  IF n < 10 THEN <<DigitChar(n)>>
  ELSE Append(IntToStr(n \div 10), DigitChar(n % 10))

\* ------------------------------------------------------------- fractions
Abs(x) == IF x < 0 THEN 0 - x ELSE x

RECURSIVE GCD(_, _)
GCD(a, b) == IF b = 0 THEN a ELSE GCD(b, a % b)

\* Fraction(n, d) for d # 0: lowest terms, positive denominator.
Fraction(n, d) ==
  LET g == GCD(Abs(n), Abs(d))
      s == IF d < 0 THEN 0 - 1 ELSE 1
  IN <<(s * n) \div g, (s * d) \div g>>

\* Fraction(text) for "num" or "num/den": ValueError on other text,
\* ZeroDivisionError on a zero denominator.
FractionFromString(s) ==
  LET parts == Split(s, "/")
      num == PyInt(parts[1])
      den == IF Len(parts) = 2 THEN PyInt(parts[2]) ELSE [ok |-> TRUE, val |-> 1]
  IN IF Len(parts) > 2 \/ ~num.ok \/ ~den.ok
        \/ (Len(parts) = 2 /\ ~IsDigits(parts[2]))
       THEN [exc |-> "ValueError", val |-> <<0, 1>>]
     ELSE IF den.val = 0
       THEN [exc |-> "ZeroDivisionError", val |-> <<0, 1>>]
     ELSE [exc |-> "", val |-> Fraction(num.val, den.val)]

\* Variant: the frame rate is rounded down to whole frames per second
\* before dividing.
IntDivFractionTruncated(n, f) ==
  IF f[1] \div f[2] = 0 THEN [exc |-> "ZeroDivisionError", val |-> <<0, 1>>]
  ELSE [exc |-> "", val |-> Fraction(n, f[1] \div f[2])]

\* n / f for an int n and a Fraction f (Fraction.__rtruediv__).
IntDivFraction(n, f) ==
  IF f[1] = 0 THEN [exc |-> "ZeroDivisionError", val |-> <<0, 1>>]
  ELSE [exc |-> "", val |-> Fraction(n * f[2], f[1])]

\* Variant: subtracts the numerators without a common denominator.
FractionSubNaive(a, b) == Fraction(a[1] - b[1], a[2])

\* a - b for Fractions.
FractionSub(a, b) == Fraction(a[1] * b[2] - b[1] * a[2], a[2] * b[2])

\* ------------------------------------------------------------- inputs
\* Command-line values after parse_args().
FrameArgs == {None} \cup {Some(n) : n \in (-1..(MaxFrames + 1)) \cup {30, 90}}

AudioTokens == {<<"0">>, <<"1">>, <<"2">>, <<"-", "1">>, <<>>}

RECURSIVE Join(_)
Join(ts) ==
  IF Len(ts) = 1 THEN ts[1] ELSE ts[1] \o <<",">> \o Join(Tail(ts))

AudioTrackArgs ==
  {None} \cup
  {Some(Join(ts)) : ts \in UNION {[1..k -> AudioTokens] : k \in 1..MaxTracks}}

InputPaths == {<<"d", "/", "v", ".", "m">>, <<"v">>, <<".", "m">>}

OutputArgs == {None, Some(<<>>), Some(<<"o">>)}

ArgsOf(inp, sf, ef, at, cv, nl, out) ==
  [input |-> inp, start_frame |-> sf, end_frame |-> ef, audio_tracks |-> at,
   copy_video |-> cv, no_loudnorm |-> nl, output |-> out]

DefaultPath == <<"d", "/", "v", ".", "m">>

\* The argument tuples explored: every pair of frame bounds with a few
\* audio selections, every audio selection with a few frame bounds, and
\* every path / output / copy-video combination.
ArgsDomain ==
  {ArgsOf(DefaultPath, sf, ef, at, FALSE, FALSE, None) :
     sf \in FrameArgs, ef \in FrameArgs, at \in {None, Some(<<"0">>)}}
  \cup
  {ArgsOf(DefaultPath, fr[1], fr[2], at, FALSE, nl, None) :
     fr \in {<<None, None>>, <<Some(0), Some(1)>>, <<Some(1), None>>},
     at \in AudioTrackArgs, nl \in BOOLEAN}
  \cup
  {ArgsOf(inp, None, Some(1), None, cv, FALSE, out) :
     inp \in InputPaths, cv \in BOOLEAN, out \in OutputArgs}

\* What ffprobe can report.
CodecTypes == {"video", "audio", "subtitle"}

StreamTypeLists == UNION {[1..k -> CodecTypes] : k \in 0..MaxStreams}

NbFramesTexts ==
  {None} \cup {Some(IntToStr(n)) : n \in (0..MaxFrames) \cup {300}}

RateTexts ==
  {<<"0", "/", "0">>, <<"0", "/", "1">>, <<"1", "/", "1">>,
   <<"2", "5", "/", "1">>, <<"3", "/", "2">>,
   <<"3", "0", "0", "0", "0", "/", "1", "0", "0", "1">>}

\* The probe results explored: every list of stream types with one video
\* description, and every video description with two lists of types.
ProbeDomain ==
  {<<types, Some(IntToStr(MaxFrames)), <<"2", "5", "/", "1">>>> :
     types \in StreamTypeLists}
  \cup
  {<<types, nb, rate>> :
     types \in {<<"video">>, <<"video", "audio", "audio">>},
     nb \in NbFramesTexts, rate \in RateTexts}

\* The 'streams' list of a probe: stream i has index i; the video fields
\* are filled for video streams.
ProbeStreams(types, nb, rate) ==
  [i \in 1..Len(types) |->
     [index |-> i - 1, codec_type |-> types[i],
      nb_frames |-> IF types[i] = "video" THEN nb ELSE None,
      r_frame_rate |-> IF types[i] = "video" THEN rate ELSE <<"0", "/", "0">>]]

\* ------------------------------------------------------------- get_probe
\* The loop of get_probe over probe['streams'], from position i with the
\* accumulated video_probe / audio_probes.
RECURSIVE SplitStreams(_, _, _, _)
SplitStreams(streams, i, vp, aps) ==
  IF i > Len(streams) THEN [exc |-> "", video_probe |-> vp, audio_probes |-> aps]
  ELSE IF streams[i].codec_type = "video"
    THEN IF ~IsNone(vp)
           THEN [exc |-> "Multiple video track.", video_probe |-> vp,
                 audio_probes |-> aps]
           ELSE SplitStreams(streams, i + 1, Some(streams[i]), aps)
  ELSE IF streams[i].codec_type = "audio"
    THEN SplitStreams(streams, i + 1, vp, Append(aps, streams[i]))
  ELSE SplitStreams(streams, i + 1, vp, aps)

Raise(e) ==
  /\ raised' = e
  /\ pc' = "raised"

Init ==
  /\ pc = "get_probe"
  /\ args \in ArgsDomain
  /\ video_probe = None
  /\ audio_probes = <<>>
  /\ i_ats = None
  /\ output_file = None
  /\ r_frame_rate = None
  /\ start_time = None
  /\ duration = None
  /\ input_kwargs = [ss |-> None, t |-> None]
  /\ ffkwargs = [vcodec |-> None, acodec |-> None]
  /\ audio_stream = None
  /\ raised = ""
  /\ invocations = <<>>

\* ffmpeg.probe runs ffprobe, which exits non-zero: ffmpeg.Error.
GetProbeFails ==
  /\ pc = "get_probe"
  /\ invocations' = Append(invocations, "ffprobe")
  /\ Raise("ffmpeg.Error: ffprobe")
  /\ UNCHANGED <<args, video_probe, audio_probes, i_ats, output_file,
                 r_frame_rate, start_time, duration, input_kwargs, ffkwargs,
                 audio_stream>>

\* ffmpeg.probe succeeds and get_probe splits the streams.
GetProbe ==
  /\ pc = "get_probe"
  /\ invocations' = Append(invocations, "ffprobe")
  /\ \E p \in ProbeDomain :
       LET r == SplitStreams(ProbeStreams(p[1], p[2], p[3]), 1, None, <<>>)
       IN IF r.exc # ""
            THEN /\ Raise(r.exc)
                 /\ UNCHANGED <<video_probe, audio_probes>>
            ELSE /\ video_probe' = r.video_probe
                 /\ audio_probes' = r.audio_probes
                 /\ pc' = "check_frames"
                 /\ UNCHANGED raised
  /\ UNCHANGED <<args, i_ats, output_file, r_frame_rate, start_time,
                 duration, input_kwargs, ffkwargs, audio_stream>>

\* ------------------------------------------------------------- check inputs
\* Variant: a bound equal to the frame count is rejected (<= for <).
BoundErrorStrict(frame, vp) ==
  IF frame < 0 THEN "oob"
  ELSE IF IsNone(vp) THEN "TypeError"
  ELSE IF IsNone(Val(vp).nb_frames) THEN "KeyError"
  ELSE IF ~PyInt(Val(Val(vp).nb_frames)).ok THEN "ValueError"
  ELSE IF PyInt(Val(Val(vp).nb_frames)).val <= frame THEN "oob"
  ELSE ""

\* One bound test `frame < 0 or int(video_probe['nb_frames']) < frame`:
\* "oob" when it is true, "" when false, else the exception its
\* evaluation raises (the right operand is evaluated only if frame >= 0).
BoundError(frame, vp) ==
  IF frame < 0 THEN "oob"
  ELSE IF IsNone(vp) THEN "TypeError"
  ELSE IF IsNone(Val(vp).nb_frames) THEN "KeyError"
  ELSE IF ~PyInt(Val(Val(vp).nb_frames)).ok THEN "ValueError"
  ELSE IF PyInt(Val(Val(vp).nb_frames)).val < frame THEN "oob"
  ELSE ""

\* Variant: an empty range start = end is accepted (> for >=).
RangeErrorStrict(sf, ef) == sf > ef

\* start >= end, both given.
RangeError(sf, ef) == sf >= ef

StartOutOfBounds == "Start frame out of bounds"
EndOutOfBounds == "End frame out of bounds"
EndNotLarger == "End frame must be larger than Start frame"
AudioTrackWrong == "Audito track number wrong"
InputNotFound == "Input file not found"
MultipleVideo == "Multiple video track."

\* Variant: the start/end order is tested before the bounds.
FrameCheckRangeFirst(a, vp) ==
  LET s == IF IsNone(a.start_frame) THEN ""
           ELSE BoundError(Val(a.start_frame), vp)
      e == IF IsNone(a.end_frame) THEN ""
           ELSE BoundError(Val(a.end_frame), vp)
  IN IF /\ ~IsNone(a.start_frame)
        /\ ~IsNone(a.end_frame)
        /\ RangeError(Val(a.start_frame), Val(a.end_frame))
       THEN EndNotLarger
     ELSE IF s = "oob" THEN StartOutOfBounds
     ELSE IF s # "" THEN s
     ELSE IF e = "oob" THEN EndOutOfBounds
     ELSE e

\* The exception raised by the three frame checks, "" if none.
FrameCheck(a, vp) ==
  LET s == IF IsNone(a.start_frame) THEN ""
           ELSE BoundError(Val(a.start_frame), vp)
      e == IF IsNone(a.end_frame) THEN ""
           ELSE BoundError(Val(a.end_frame), vp)
  IN IF s = "oob" THEN StartOutOfBounds
     ELSE IF s # "" THEN s
     ELSE IF e = "oob" THEN EndOutOfBounds
     ELSE IF e # "" THEN e
     ELSE IF /\ ~IsNone(a.start_frame)
             /\ ~IsNone(a.end_frame)
             /\ RangeError(Val(a.start_frame), Val(a.end_frame))
       THEN EndNotLarger
     ELSE ""

CheckFrames ==
  /\ pc = "check_frames"
  /\ LET e == FrameCheck(args, video_probe)
     IN IF e # "" THEN Raise(e)
        ELSE pc' = "check_audio" /\ UNCHANGED raised
  /\ UNCHANGED <<args, video_probe, audio_probes, i_ats, output_file,
                 r_frame_rate, start_time, duration, input_kwargs, ffkwargs,
                 audio_stream, invocations>>

\* list(map(int, text.split(','))).
ParseTracks(text) ==
  LET toks == Split(text, ",")
  IN IF \E i \in 1..Len(toks) : ~PyInt(toks[i]).ok
       THEN [exc |-> "ValueError", val |-> <<>>]
       ELSE [exc |-> "", val |-> [i \in 1..Len(toks) |-> PyInt(toks[i]).val]]

\* Variant: the index n itself is accepted (<= for <).
InRangeInclusive(i_at, n) == 0 <= i_at /\ i_at <= n

\* i_at in range(n).
InRange(i_at, n) == 0 <= i_at /\ i_at < n

CheckAudioTracks ==
  /\ pc = "check_audio"
  /\ IF IsNone(args.audio_tracks)
       THEN /\ i_ats' = None
            /\ pc' = "check_file"
            /\ UNCHANGED raised
       ELSE LET p == ParseTracks(Val(args.audio_tracks))
            IN IF p.exc # ""
                 THEN Raise(p.exc) /\ UNCHANGED i_ats
                 ELSE /\ i_ats' = Some(p.val)
                      /\ IF \E k \in 1..Len(p.val) :
                              ~InRange(p.val[k], Len(audio_probes))
                           THEN Raise(AudioTrackWrong)
                           ELSE pc' = "check_file" /\ UNCHANGED raised
  /\ UNCHANGED <<args, video_probe, audio_probes, output_file,
                 r_frame_rate, start_time, duration, input_kwargs, ffkwargs,
                 audio_stream, invocations>>

\* Variant: the tool is started before the file test is made.
CheckInputFileAfterRun ==
  /\ pc = "check_file"
  /\ invocations' = Append(invocations, "ffmpeg")
  /\ \E isfile \in BOOLEAN :
       IF isfile THEN pc' = "done" /\ UNCHANGED raised
       ELSE Raise(InputNotFound)
  /\ UNCHANGED <<args, video_probe, audio_probes, i_ats, output_file,
                 r_frame_rate, start_time, duration, input_kwargs, ffkwargs,
                 audio_stream>>

\* os.path.isfile(args.input) is answered by the file system.
CheckInputFile ==
  /\ pc = "check_file"
  /\ \E isfile \in BOOLEAN :
       IF isfile THEN pc' = "output_file" /\ UNCHANGED raised
       ELSE Raise(InputNotFound)
  /\ UNCHANGED <<args, video_probe, audio_probes, i_ats, output_file,
                 r_frame_rate, start_time, duration, input_kwargs, ffkwargs,
                 audio_stream, invocations>>

\* ------------------------------------------------------------- output file
\* s.rfind(c), 1-based; 0 when c does not occur.
RFind(s, c) ==
  IF \E i \in 1..Len(s) : s[i] = c
    THEN CHOOSE i \in 1..Len(s) : s[i] = c /\ \A j \in (i + 1)..Len(s) : s[j] # c
    ELSE 0

BaseName(path) == SubSeq(path, RFind(path, "/") + 1, Len(path))

\* os.path.splitext: the extension starts at the last dot after the last
\* separator, unless only dots precede it in the file name.
SplitExt(path) ==
  LET sepIndex == RFind(path, "/")
      dotIndex == RFind(path, ".")
  IN IF /\ dotIndex > sepIndex
        /\ \E k \in (sepIndex + 1)..(dotIndex - 1) : path[k] # "."
       THEN <<SubSeq(path, 1, dotIndex - 1), SubSeq(path, dotIndex, Len(path))>>
       ELSE <<path, <<>>>>

Converted == <<".", "c", "o", "n", "v", "e", "r", "t", "e", "d">>

OutputFileOf(a) ==
  IF ~IsNone(a.output) /\ Val(a.output) # <<>> THEN Val(a.output)
  ELSE LET be == SplitExt(BaseName(a.input))
       IN be[1] \o Converted \o be[2]

OutputFile ==
  /\ pc = "output_file"
  /\ output_file' = Some(OutputFileOf(args))
  /\ pc' = "convert"
  /\ UNCHANGED <<args, video_probe, audio_probes, i_ats, r_frame_rate,
                 start_time, duration, input_kwargs, ffkwargs, audio_stream,
                 raised, invocations>>

\* ------------------------------------------------------------- frame to time
NoWindow(e) ==
  [exc |-> e, r_frame_rate |-> None, start_time |-> None, duration |-> None]

\* The 'convert frame to time' block: the exception it raises, or the
\* frame rate, start time and duration it computes.
TimeWindow(a, vp) ==
  IF IsNone(vp) THEN NoWindow("TypeError")
  ELSE
    LET fr == FractionFromString(Val(vp).r_frame_rate)
        st == IF IsNone(a.start_frame) THEN [exc |-> "", val |-> <<0, 1>>]
              ELSE IntDivFraction(Val(a.start_frame), fr.val)
        et == IF IsNone(a.end_frame) THEN [exc |-> "", val |-> <<0, 1>>]
              ELSE IntDivFraction(Val(a.end_frame), fr.val)
    IN IF fr.exc # "" THEN NoWindow(fr.exc)
       ELSE IF st.exc # "" THEN NoWindow(st.exc)
       ELSE IF et.exc # "" THEN NoWindow(et.exc)
       ELSE [exc |-> "",
             r_frame_rate |-> Some(fr.val),
             start_time |-> IF IsNone(a.start_frame) THEN None ELSE Some(st.val),
             duration |->
               IF IsNone(a.end_frame) THEN None
               ELSE IF ~IsNone(a.start_frame)
                 THEN Some(FractionSub(et.val, st.val))
                 ELSE Some(et.val)]

ConvertFrameToTime ==
  /\ pc = "convert"
  /\ LET w == TimeWindow(args, video_probe)
     IN IF w.exc # ""
          THEN /\ Raise(w.exc)
               /\ UNCHANGED <<r_frame_rate, start_time, duration>>
          ELSE /\ r_frame_rate' = w.r_frame_rate
               /\ start_time' = w.start_time
               /\ duration' = w.duration
               /\ pc' = "streams"
               /\ UNCHANGED raised
  /\ UNCHANGED <<args, video_probe, audio_probes, i_ats, output_file,
                 input_kwargs, ffkwargs, audio_stream, invocations>>

\* ------------------------------------------------------------- streams
\* float(q): the double nearest to the Fraction q, kept as a tagged value.
PyFloat(q) == [float_of |-> q]

InputKwargs(st, du) ==
  [ss |-> IF IsNone(st) THEN None ELSE Some(PyFloat(Val(st))),
   t |-> IF IsNone(du) THEN None ELSE Some(PyFloat(Val(du)))]

\* f'a:{i_at}'
AudioSelector(i_at) == <<"a", ":">> \o IntToStr(i_at)

\* Variant: the loudnorm filter is applied outside the selection branch.
AudioPlanLoudnormOutside(ats, no_loudnorm) ==
  LET norm == IF ~no_loudnorm THEN << [name |-> "loudnorm", inputs |-> None] >>
              ELSE <<>>
  IN IF IsNone(ats)
       THEN [inputs |-> << <<"a">> >>, filters |-> norm, acodec |-> "copy"]
       ELSE [inputs |-> [k \in 1..Len(Val(ats)) |-> AudioSelector(Val(ats)[k])],
             filters |->
               << [name |-> "amix", inputs |-> Some(Len(Val(ats)))] >> \o norm,
             acodec |-> "aac"]

\* Variant: the no-loudnorm flag is read the wrong way round.
AudioPlanFlagInverted(ats, no_loudnorm) ==
  IF IsNone(ats)
    THEN [inputs |-> << <<"a">> >>, filters |-> <<>>, acodec |-> "copy"]
    ELSE [inputs |-> [k \in 1..Len(Val(ats)) |-> AudioSelector(Val(ats)[k])],
          filters |->
            << [name |-> "amix", inputs |-> Some(Len(Val(ats)))] >> \o
            (IF no_loudnorm THEN << [name |-> "loudnorm", inputs |-> None] >>
             ELSE <<>>),
          acodec |-> "aac"]

\* The audio branch: the input streams taken, the filters applied in
\* order, and the audio codec.
AudioPlan(ats, no_loudnorm) ==
  IF IsNone(ats)
    THEN [inputs |-> << <<"a">> >>, filters |-> <<>>, acodec |-> "copy"]
    ELSE [inputs |-> [k \in 1..Len(Val(ats)) |-> AudioSelector(Val(ats)[k])],
          filters |->
            << [name |-> "amix", inputs |-> Some(Len(Val(ats)))] >> \o
            (IF ~no_loudnorm THEN << [name |-> "loudnorm", inputs |-> None] >>
             ELSE <<>>),
          acodec |-> "aac"]

BuildStreams ==
  /\ pc = "streams"
  /\ input_kwargs' = InputKwargs(start_time, duration)
  /\ LET ap == AudioPlan(i_ats, args.no_loudnorm)
     IN /\ audio_stream' = Some([inputs |-> ap.inputs, filters |-> ap.filters])
        /\ ffkwargs' = [vcodec |-> IF args.copy_video THEN Some("copy") ELSE None,
                        acodec |-> Some(ap.acodec)]
  /\ pc' = "run"
  /\ UNCHANGED <<args, video_probe, audio_probes, i_ats, output_file,
                 r_frame_rate, start_time, duration, raised, invocations>>

\* ------------------------------------------------------------- run
\* Variant: a failed ffmpeg is started a second time.
RunRetry ==
  /\ pc = "run"
  /\ \E ok \in BOOLEAN :
       IF ok THEN /\ invocations' = Append(invocations, "ffmpeg")
                  /\ pc' = "done"
                  /\ UNCHANGED raised
       ELSE /\ invocations' = invocations \o <<"ffmpeg", "ffmpeg">>
            /\ Raise("ffmpeg.Error: ffmpeg")
  /\ UNCHANGED <<args, video_probe, audio_probes, i_ats, output_file,
                 r_frame_rate, start_time, duration, input_kwargs, ffkwargs,
                 audio_stream>>

\* ffmpeg.run starts ffmpeg once and waits; a non-zero exit raises
\* ffmpeg.Error.
Run ==
  /\ pc = "run"
  /\ invocations' = Append(invocations, "ffmpeg")
  /\ \E ok \in BOOLEAN :
       IF ok THEN pc' = "done" /\ UNCHANGED raised
       ELSE Raise("ffmpeg.Error: ffmpeg")
  /\ UNCHANGED <<args, video_probe, audio_probes, i_ats, output_file,
                 r_frame_rate, start_time, duration, input_kwargs, ffkwargs,
                 audio_stream>>

Next ==
  \/ GetProbeFails
  \/ GetProbe
  \/ CheckFrames
  \/ CheckAudioTracks
  \/ CheckInputFile
  \/ OutputFile
  \/ ConvertFrameToTime
  \/ BuildStreams
  \/ Run

Spec == Init /\ [][Next]_vars

\* ------------------------------------------------------------- properties
ValidationErrors ==
  {MultipleVideo, StartOutOfBounds, EndOutOfBounds, EndNotLarger,
   AudioTrackWrong, InputNotFound}

FrameOutOfBounds == {StartOutOfBounds, EndOutOfBounds}

\* Exceptions that can only be raised after the frame checks have passed.
AfterFrameChecks ==
  {AudioTrackWrong, "ValueError", InputNotFound, "ZeroDivisionError",
   "ffmpeg.Error: ffmpeg"}

\* Exceptions that can only be raised after the audio check has passed.
AfterAudioCheck ==
  {InputNotFound, "TypeError", "ZeroDivisionError", "ffmpeg.Error: ffmpeg"}

Transcoded == \E i \in 1..Len(invocations) : invocations[i] = "ffmpeg"

\* The frame checks have run on a video stream that reports a frame count.
FramesChecked ==
  /\ pc \notin {"get_probe", "check_frames"}
  /\ ~IsNone(video_probe)
  /\ ~IsNone(Val(video_probe).nb_frames)

TotalFrames == PyInt(Val(Val(video_probe).nb_frames)).val

GivenOutside(f) == ~IsNone(f) /\ (Val(f) < 0 \/ Val(f) > TotalFrames)

BothGiven == ~IsNone(args.start_frame) /\ ~IsNone(args.end_frame)

\* q = n / fr for a Fraction q, an integer n and a non-zero Fraction fr.
IsQuotient(q, n, fr) == Fraction(q[1], q[2]) = Fraction(n * fr[2], fr[1])

FractionLeq(a, b) == a[1] * b[2] <= b[1] * a[2]

\* a + b over the least common denominator.
FractionAdd(a, b) ==
  LET g == GCD(a[2], b[2])
  IN Fraction(a[1] * (b[2] \div g) + b[1] * (a[2] \div g), (a[2] \div g) * b[2])

\* time x frameRate.
TimeToFrame(t, fr) == Fraction(t[1] * fr[1], t[2] * fr[2])

NtscRate == <<"3", "0", "0", "0", "0", "/", "1", "0", "0", "1">>

\* C1 (as stated): in every run that ends in a validation error, no
\* external-tool invocation has happened before the error, and none after.
C1_Original == raised \in ValidationErrors => invocations = <<>>

\* C1 (amended): in every run that ends in a validation error, the
\* metadata probe has been invoked exactly once, before the error, and the
\* transcode tool is invoked neither before nor after it.
C1_Amended == raised \in ValidationErrors => invocations = <<"ffprobe">>

C1_Witness ==
  /\ pc = "raised"
  /\ raised = InputNotFound
  /\ invocations = <<"ffprobe">>

\* C2: on a probed video stream of TotalFrames frames, the frame checks
\* raise an out-of-bounds error iff a given bound is negative or greater
\* than TotalFrames, otherwise the start/end order error iff both bounds
\* are given and start >= end, and otherwise they pass.
C2_FrameValidation ==
  FramesChecked =>
    LET outside == GivenOutside(args.start_frame) \/ GivenOutside(args.end_frame)
        inverted == BothGiven /\ Val(args.start_frame) >= Val(args.end_frame)
    IN /\ (raised \in FrameOutOfBounds) <=> outside
       /\ (raised = EndNotLarger) <=> (~outside /\ inverted)
       /\ (~outside /\ ~inverted) =>
            (pc = "raised" => raised \in AfterFrameChecks)

C2_Witness ==
  /\ pc = "done"
  /\ FramesChecked
  /\ TotalFrames = 2
  /\ args.start_frame = Some(0)
  /\ args.end_frame = Some(2)

\* C3 (as stated): whenever startFrame > endFrame, whatever their relation
\* to the frame count, the run fails with the start/end order error and
\* the transcode tool is not invoked.
C3_Original ==
  (FramesChecked /\ BothGiven /\ Val(args.start_frame) > Val(args.end_frame))
    => (raised = EndNotLarger /\ ~Transcoded)

\* C3 (amended): whenever startFrame > endFrame the run fails before the
\* transcode tool is invoked; on a video stream of TotalFrames frames it
\* fails with the start/end order error when both bounds lie in
\* 0..TotalFrames and with an out-of-bounds error otherwise.
C3_Amended ==
  (/\ pc \notin {"get_probe", "check_frames"}
   /\ BothGiven
   /\ Val(args.start_frame) > Val(args.end_frame))
    => /\ pc = "raised"
       /\ ~Transcoded
       /\ FramesChecked =>
            IF GivenOutside(args.start_frame) \/ GivenOutside(args.end_frame)
              THEN raised \in FrameOutOfBounds
              ELSE raised = EndNotLarger

C3_Witness ==
  /\ FramesChecked
  /\ TotalFrames = 2
  /\ args.start_frame = Some(3)
  /\ args.end_frame = Some(1)
  /\ raised = StartOutOfBounds

\* C4: once the audio selection has been parsed (the frame checks having
\* passed), the run fails with the audio-track error iff some requested
\* index is outside 0..n-1 for the n probed audio streams, and the audio
\* check passes when every index is inside.
C4_AudioValidation ==
  ~IsNone(i_ats) =>
    LET n == Len(audio_probes)
        bad == \E k \in 1..Len(Val(i_ats)) :
                 Val(i_ats)[k] \notin 0..(n - 1)
    IN /\ (raised = AudioTrackWrong) <=> bad
       /\ ~bad => (pc = "raised" => raised \in AfterAudioCheck)

C4_Witness ==
  /\ args.audio_tracks = Some(<<"2">>)
  /\ i_ats = Some(<<2>>)
  /\ Len(audio_probes) = 2
  /\ raised = AudioTrackWrong

\* C5: the computed start time is startFrame / frameRate and the duration
\* (endFrame - startFrame) / frameRate, exactly; with only endFrame the
\* duration is endFrame / frameRate and the start is absent; with only
\* startFrame the duration is absent; 30000/1001 fps with frames 30..90
\* gives 1001/500 s.
C5_TimeWindow ==
  (~IsNone(r_frame_rate) /\ Val(r_frame_rate)[1] > 0) =>
    LET fr == Val(r_frame_rate)
        sf == args.start_frame
        ef == args.end_frame
    IN /\ IsNone(sf) <=> IsNone(start_time)
       /\ IsNone(ef) <=> IsNone(duration)
       /\ ~IsNone(sf) => IsQuotient(Val(start_time), Val(sf), fr)
       /\ (~IsNone(sf) /\ ~IsNone(ef)) =>
            IsQuotient(Val(duration), Val(ef) - Val(sf), fr)
       /\ (IsNone(sf) /\ ~IsNone(ef)) =>
            IsQuotient(Val(duration), Val(ef), fr)
       /\ (/\ Val(video_probe).r_frame_rate = NtscRate
           /\ sf = Some(30)
           /\ ef = Some(90)) => duration = Some(<<1001, 500>>)

C5_Witness ==
  /\ pc = "done"
  /\ Val(video_probe).r_frame_rate = NtscRate
  /\ Val(video_probe).nb_frames = Some(<<"3", "0", "0">>)
  /\ args.start_frame = Some(30)
  /\ args.end_frame = Some(90)
  /\ duration = Some(<<1001, 500>>)

\* C6: for the parsed frame rate and every frame index N, the time
\* N / frameRate multiplied by the frame rate is N again, in exact
\* rational arithmetic; in particular for the start time computed.
C6_RoundTrip ==
  (~IsNone(r_frame_rate) /\ Val(r_frame_rate)[1] > 0) =>
    LET fr == Val(r_frame_rate)
    IN /\ \A N \in (0..(MaxFrames + 1)) \cup {30, 90} :
            /\ IntDivFraction(N, fr).exc = ""
            /\ TimeToFrame(IntDivFraction(N, fr).val, fr) = <<N, 1>>
       /\ ~IsNone(start_time) =>
            TimeToFrame(Val(start_time), fr) = <<Val(args.start_frame), 1>>

C6_Witness ==
  /\ r_frame_rate = Some(<<30000, 1001>>)
  /\ args.start_frame = Some(30)
  /\ start_time = Some(<<1001, 1000>>)

\* C7: with no audio-track selection the plan takes the file's audio as
\* it is with the copy codec, and holds neither a mix nor a loudnorm
\* filter, whatever the no-loudnorm flag.
C7_CopyAll ==
  (~IsNone(audio_stream) /\ IsNone(args.audio_tracks)) =>
    /\ Val(audio_stream).inputs = << <<"a">> >>
    /\ Val(audio_stream).filters = <<>>
    /\ ffkwargs.acodec = Some("copy")

C7_Witness ==
  /\ pc = "done"
  /\ IsNone(args.audio_tracks)
  /\ ~args.no_loudnorm
  /\ Val(audio_stream).filters = <<>>

\* C8: with a valid selection S the plan mixes exactly the tracks of S
\* (amix inputs = length of S), encodes with aac, and applies loudnorm
\* iff the no-loudnorm flag is not set; "0,1" on two audio streams
\* without the flag mixes a:0 and a:1, encodes and normalises.
C8_MixSelection ==
  (~IsNone(audio_stream) /\ ~IsNone(args.audio_tracks)) =>
    LET S == Val(i_ats)
        a == Val(audio_stream)
        amix == [name |-> "amix", inputs |-> Some(Len(S))]
        loudnorm == [name |-> "loudnorm", inputs |-> None]
    IN /\ Len(a.inputs) = Len(S)
       /\ \A k \in 1..Len(S) : a.inputs[k] = <<"a", ":">> \o IntToStr(S[k])
       /\ a.filters = IF args.no_loudnorm THEN <<amix>> ELSE <<amix, loudnorm>>
       /\ ffkwargs.acodec = Some("aac")
       /\ (args.audio_tracks = Some(<<"0", ",", "1">>) /\ ~args.no_loudnorm) =>
            /\ a.inputs = << <<"a", ":", "0">>, <<"a", ":", "1">> >>
            /\ a.filters = << [name |-> "amix", inputs |-> Some(2)], loudnorm >>

C8_Witness ==
  /\ pc = "done"
  /\ args.audio_tracks = Some(<<"0", ",", "1">>)
  /\ Len(audio_probes) = 2
  /\ ~args.no_loudnorm
  /\ Len(Val(audio_stream).filters) = 2

\* C9 (as stated): a run makes at most one external-tool invocation.
C9_Original == Len(invocations) <= 1

\* C9 (amended): a run makes at most one metadata-probe invocation and,
\* after it, at most one transcode invocation; a failed invocation is the
\* last one of the run.
C9_Amended ==
  /\ invocations \in {<<>>, <<"ffprobe">>, <<"ffprobe", "ffmpeg">>}
  /\ raised = "ffmpeg.Error: ffprobe" => invocations = <<"ffprobe">>
  /\ raised = "ffmpeg.Error: ffmpeg" => invocations = <<"ffprobe", "ffmpeg">>

C9_Witness ==
  /\ pc = "raised"
  /\ raised = "ffmpeg.Error: ffmpeg"
  /\ invocations = <<"ffprobe", "ffmpeg">>

====
